---- MODULE Spec2Model ----
(***************************************************************************)
(* Bible Character Quiz (src/app.py): the Streamlit session state, the two *)
(* append-only worksheets Mode1_Sessions / Mode2_Sessions and the score    *)
(* reconciliation done by fetch_user_history.                              *)
(*                                                                         *)
(* Text values (names, ids, answers, sheet cells) are sequences of         *)
(* one-character strings so that strip / lower / title / int are computed  *)
(* and not assumed.                                                        *)
(***************************************************************************)
EXTENDS Integers, Sequences, FiniteSets, TLC

VARIABLES page, score, user_id, display_name, history_mode1, m1_answers,
          current_category, m2_progress, \* st.session_state
          m1_log, m2_log,                \* worksheets Mode1_Sessions, Mode2_Sessions
          notice,                        \* the message the last run displayed
          offered,                       \* history: normalized valid answers submitted
                                         \* since m1_answers was last emptied
          fetched,                       \* history: the user fetch_user_history last ran
                                         \* for and how often since the sheets changed
          failures                       \* history: appends that raised so far

vars == <<page, score, user_id, display_name, history_mode1, m1_answers,
          current_category, m2_progress, m1_log, m2_log, notice, offered, fetched,
          failures>>

session == <<page, score, user_id, display_name, history_mode1, m1_answers,
             current_category, m2_progress>>

(***************************************************************************)
(* Bounds of the model.                                                    *)
(***************************************************************************)
\* Rows the two worksheets hold together.
MaxRows == 3

\* Appends that raise in one behaviour.
MaxFailures == 1

(***************************************************************************)
(* Python str operations on the characters the model uses.                 *)
(***************************************************************************)
LowerChar(c) ==
  CASE c = "A" -> "a"
    [] c = "B" -> "b"
    [] c = "U" -> "u"
    [] c = "V" -> "v"
    [] OTHER -> c

UpperChar(c) ==
  CASE c = "a" -> "A"
    [] c = "b" -> "B"
    [] c = "u" -> "U"
    [] c = "v" -> "V"
    [] OTHER -> c

IsCased(c) == c \in {"a", "b", "u", "v", "A", "B", "U", "V"}

IsSpace(c) == c = " "

IsDigit(c) == c \in {"0", "1", "2", "3", "4", "5", "6", "7", "8", "9"}

RECURSIVE LStrip(_)
LStrip(s) ==
  IF s # <<>> /\ IsSpace(Head(s)) THEN LStrip(Tail(s)) ELSE s

RECURSIVE RStrip(_)
RStrip(s) ==
  IF s # <<>> /\ IsSpace(s[Len(s)]) THEN RStrip(SubSeq(s, 1, Len(s) - 1)) ELSE s

Strip(s) == RStrip(LStrip(s))

Lower(s) == [i \in 1..Len(s) |-> LowerChar(s[i])]

\* str.title(): a cased character is upper-cased when it starts a word (the
\* previous character is not cased) and lower-cased otherwise.
Title(s) ==
  [i \in 1..Len(s) |->
     IF i > 1 /\ IsCased(s[i - 1]) THEN LowerChar(s[i]) ELSE UpperChar(s[i])]

DigitChar(d) ==
  CASE d = 0 -> "0" [] d = 1 -> "1" [] d = 2 -> "2" [] d = 3 -> "3"
    [] d = 4 -> "4" [] d = 5 -> "5" [] d = 6 -> "6" [] d = 7 -> "7"
    [] d = 8 -> "8" [] OTHER -> "9"

DigitVal(c) ==
  CASE c = "0" -> 0 [] c = "1" -> 1 [] c = "2" -> 2 [] c = "3" -> 3
    [] c = "4" -> 4 [] c = "5" -> 5 [] c = "6" -> 6 [] c = "7" -> 7
    [] c = "8" -> 8 [] OTHER -> 9

\* The cell a non-negative int becomes when append_row writes it.
RECURSIVE IntCell(_)
IntCell(n) ==
  IF n < 10 THEN <<DigitChar(n)>> ELSE Append(IntCell(n \div 10), DigitChar(n % 10))

RECURSIVE DigitsVal(_)
DigitsVal(s) ==
  IF s = <<>> THEN 0 ELSE 10 * DigitsVal(SubSeq(s, 1, Len(s) - 1)) + DigitVal(s[Len(s)])

\* int(cell) succeeds on a (blank-padded) run of decimal digits.
IsIntCell(s) ==
  /\ Strip(s) # <<>>
  /\ \A i \in 1..Len(Strip(s)) : IsDigit(Strip(s)[i])

\* try: int(cell) / except: default
IntOr(s, default) == IF IsIntCell(s) THEN DigitsVal(Strip(s)) ELSE default

\* str(solved).upper() as written by save_mode2_guess.
BoolCell(b) == IF b THEN "TRUE" ELSE "FALSE"

(***************************************************************************)
(* dict helpers: a dict is a function whose DOMAIN is its key set.         *)
(***************************************************************************)
EmptyDict == [k \in {} |-> 0]

Put(d, k, v) == [x \in (DOMAIN d) \cup {k} |-> IF x = k THEN v ELSE d[x]]

Get(d, k, default) == IF k \in DOMAIN d THEN d[k] ELSE default

RECURSIVE SumValues(_)
SumValues(d) ==
  IF DOMAIN d = {} THEN 0
  ELSE LET k == CHOOSE x \in DOMAIN d : TRUE
       IN d[k] + SumValues([x \in (DOMAIN d) \ {k} |-> d[x]])

(***************************************************************************)
(* The content worksheets (1-Category, 1-CategoryAnswer, 2-Characters).    *)
(***************************************************************************)
None == [CategoryID |-> <<>>, TotalRequired |-> 0]

categories ==
  << [CategoryID |-> <<"1">>, TotalRequired |-> 2],
     [CategoryID |-> <<"2">>, TotalRequired |-> 1] >>

all_answers ==
  << [CategoryID |-> <<"1">>,      CorrectAnswer |-> <<"A", "b">>],
     [CategoryID |-> <<"1", " ">>, CorrectAnswer |-> <<"b", "a", " ">>],
     [CategoryID |-> <<"2">>,      CorrectAnswer |-> <<"B">>] >>

characters ==
  << [CharacterID_Old |-> <<"7">>, CharacterName |-> <<"A", "b", " ">>],
     [CharacterID_Old |-> <<"8">>, CharacterName |-> <<"b">>] >>

CategoryIDs == {categories[i].CategoryID : i \in 1..Len(categories)}

CharacterIDs == {characters[i].CharacterID_Old : i \in 1..Len(characters)}

(***************************************************************************)
(* What the player can type.                                               *)
(***************************************************************************)
NameInputs == {<<>>, <<" ">>, <<"u", " ">>}

PinInputs == {<<"1">>, <<"1", " ">>, <<"1", "2">>}

AnswerInputs ==
  { <<>>, <<" ">>, <<"a", "b">>, <<" ", "A", "B">>, <<"b", "A", " ">>, <<"b">> }

GuessInputs == { <<" ", "A", "B">>, <<"b">> }

(***************************************************************************)
(* fetch_user_history                                                      *)
(***************************************************************************)
user_m1(m1_data, uid) == SelectSeq(m1_data, LAMBDA r : r.UserEmail = uid)

\* "score > history_map[c_id]"
IsHigherAlways(sc, best) == TRUE
IsHigher(sc, best) == sc > best

RECURSIVE history_map_from(_, _, _)
history_map_from(rows, i, history_map) ==
  IF i > Len(rows) THEN history_map
  ELSE LET c_id == rows[i].CategoryID
           sc   == IntOr(rows[i].Score, 0)
       IN history_map_from(rows, i + 1,
            IF c_id \notin DOMAIN history_map \/ IsHigher(sc, history_map[c_id])
            THEN Put(history_map, c_id, sc)
            ELSE history_map)

history_map_of(m1_data, uid) == history_map_from(user_m1(m1_data, uid), 1, EmptyDict)

user_m2AnyUser(m2_data, uid) ==
  SelectSeq(m2_data, LAMBDA r : r.IsSolved = "TRUE")
user_m2(m2_data, uid) ==
  SelectSeq(m2_data, LAMBDA r : r.UserEmail = uid /\ r.IsSolved = "TRUE")

\* try: attempts = int(row['CurrentAttempts']) / except: attempts = 2
parse_attemptsZero(cell) == IntOr(cell, 0)
parse_attempts(cell) == IntOr(cell, 2)

\* if attempts == 0: 3 / elif attempts == 1: 2 / else: 1
tierFlat(attempts) == IF attempts = 0 THEN 3 ELSE 2
tier(attempts) == IF attempts = 0 THEN 3 ELSE IF attempts = 1 THEN 2 ELSE 1

\* "if c_id not in solved_chars"
NotYetCountedNever(c_id, solved_chars) == TRUE
NotYetCounted(c_id, solved_chars) == c_id \notin solved_chars

\* The loop over user_m2: the pair <<solved_chars, m2_points>> it ends with.
RECURSIVE m2_scan(_, _, _, _)
m2_scan(rows, i, solved_chars, m2_points) ==
  IF i > Len(rows) THEN [solved_chars |-> solved_chars, m2_points |-> m2_points]
  ELSE LET c_id == rows[i].CharacterID
       IN IF NotYetCounted(c_id, solved_chars)
          THEN m2_scan(rows, i + 1, solved_chars \cup {c_id},
                       m2_points + tier(parse_attempts(rows[i].CurrentAttempts)))
          ELSE m2_scan(rows, i + 1, solved_chars, m2_points)

m2_result(m2_data, uid) == m2_scan(user_m2(m2_data, uid), 1, {}, 0)

\* Pre-fill of m2_progress with the solved characters.
prefillSkip(progress, solved_chars) == progress
prefill(progress, solved_chars) ==
  [c \in (DOMAIN progress) \cup solved_chars |->
     IF c \in solved_chars
     THEN IF c \in DOMAIN progress
          THEN [progress[c] EXCEPT !.solved = TRUE]
          ELSE [attempts |-> 0, solved |-> TRUE]
     ELSE progress[c]]

total_calculated_score(m1_data, m2_data, uid) ==
  SumValues(history_map_of(m1_data, uid)) + m2_result(m2_data, uid).m2_points

\* "st.session_state.score = total_calculated_score"
set_scoreAdd(old, total) == old + total
set_score(old, total) == total

fetch_user_history(uid) ==
  /\ history_mode1' = history_map_of(m1_log, uid)
  /\ m2_progress' = prefill(m2_progress, m2_result(m2_log, uid).solved_chars)
  /\ score' = set_score(score, total_calculated_score(m1_log, m2_log, uid))

(***************************************************************************)
(* Session state initialisation (also what a rerun after Log Out builds).  *)
(***************************************************************************)
InitSession ==
  /\ page = "home"
  /\ score = 0
  /\ user_id = <<>>
  /\ display_name = <<>>
  /\ history_mode1 = EmptyDict
  /\ m1_answers = <<>>
  /\ current_category = None
  /\ m2_progress = EmptyDict

Init ==
  /\ InitSession
  /\ m1_log = <<>>
  /\ m2_log = <<>>
  /\ notice = ""
  /\ offered = {}
  /\ fetched = [uid |-> <<>>, runs |-> 0]
  /\ failures = 0

(***************************************************************************)
(* mode2_play's "Init State" loop, run whenever the page is rendered.      *)
(***************************************************************************)
render_mode2(progress) ==
  [c \in (DOMAIN progress) \cup CharacterIDs |->
     IF c \in DOMAIN progress THEN progress[c]
     ELSE [attempts |-> 0, solved |-> FALSE]]

(***************************************************************************)
(* home_page: Start Game                                                   *)
(***************************************************************************)
make_id(name, pin) == name \o <<"_">> \o pin

login_okAnyPin(name, pin) == name # <<>>
login_ok(name, pin) == name # <<>> /\ Len(pin) >= 2

StartGame(name_in, pin_in) ==
  /\ page = "home"
  /\ LET name == Strip(name_in)
         pin  == Strip(pin_in)
     IN IF login_ok(name, pin)
        THEN /\ user_id' = make_id(name, pin)
             /\ display_name' = name
             /\ fetch_user_history(make_id(name, pin))
             /\ page' = "menu"
             /\ notice' = ""
             /\ UNCHANGED <<m1_answers, current_category>>
        ELSE /\ notice' = "login_error"
             /\ UNCHANGED session
  /\ UNCHANGED <<m1_log, m2_log, offered, fetched, failures>>

(***************************************************************************)
(* render_sidebar                                                          *)
(***************************************************************************)
NavHome ==
  /\ user_id # <<>>
  /\ page' = "menu"
  /\ notice' = ""
  /\ UNCHANGED <<score, user_id, display_name, history_mode1, m1_answers,
                 current_category, m2_progress, m1_log, m2_log, offered, fetched, failures>>

NavMode1 ==
  /\ user_id # <<>>
  /\ page' = "mode1_select"
  /\ m1_answers' = <<>>
  /\ offered' = {}
  /\ notice' = ""
  /\ UNCHANGED <<score, user_id, display_name, history_mode1,
                 current_category, m2_progress, m1_log, m2_log, fetched, failures>>

NavMode2 ==
  /\ user_id # <<>>
  /\ page' = "mode2_play"
  /\ m2_progress' = render_mode2(m2_progress)
  /\ notice' = ""
  /\ UNCHANGED <<score, user_id, display_name, history_mode1, m1_answers,
                 current_category, m1_log, m2_log, offered, fetched, failures>>

LogOut ==
  /\ user_id # <<>>
  /\ page' = "home"
  /\ score' = 0
  /\ user_id' = <<>>
  /\ display_name' = <<>>
  /\ history_mode1' = EmptyDict
  /\ m1_answers' = <<>>
  /\ current_category' = None
  /\ m2_progress' = EmptyDict
  /\ offered' = {}
  /\ notice' = ""
  /\ UNCHANGED <<m1_log, m2_log, fetched, failures>>

(***************************************************************************)
(* menu_page                                                               *)
(***************************************************************************)
PlayCategoryMode ==
  /\ page = "menu"
  /\ page' = "mode1_select"
  /\ notice' = ""
  /\ UNCHANGED <<score, user_id, display_name, history_mode1, m1_answers,
                 current_category, m2_progress, m1_log, m2_log, offered, fetched, failures>>

PlayCharacterMode ==
  /\ page = "menu"
  /\ page' = "mode2_play"
  /\ m2_progress' = render_mode2(m2_progress)
  /\ notice' = ""
  /\ UNCHANGED <<score, user_id, display_name, history_mode1, m1_answers,
                 current_category, m1_log, m2_log, offered, fetched, failures>>

(***************************************************************************)
(* save_mode1_session / save_mode2_guess: the appended rows (the session   *)
(* id, the timestamp and the blank padding cells are not represented).     *)
(***************************************************************************)
save_mode1_sessionTotal(category_id, sc, answers) ==
  m1_log' = Append(m1_log, [CategoryID |-> category_id, UserEmail |-> user_id,
                            Score |-> IntCell(score), Answers |-> answers])
save_mode1_session(category_id, sc, answers) ==
  m1_log' = Append(m1_log, [CategoryID |-> category_id, UserEmail |-> user_id,
                            Score |-> IntCell(sc), Answers |-> answers])

save_mode2_guessOverwrite(char_id, attempts, solved, guess) ==
  m2_log' = << [CharacterID |-> char_id, UserEmail |-> user_id,
                CurrentAttempts |-> IntCell(attempts),
                IsSolved |-> BoolCell(solved), Guess |-> guess] >>
save_mode2_guess(char_id, attempts, solved, guess) ==
  m2_log' = Append(m2_log, [CharacterID |-> char_id, UserEmail |-> user_id,
                            CurrentAttempts |-> IntCell(attempts),
                            IsSolved |-> BoolCell(solved), Guess |-> guess])

(***************************************************************************)
(* mode1_select                                                            *)
(***************************************************************************)
is_completeNever(cat) == FALSE
is_complete(cat) == Get(history_mode1, cat.CategoryID, 0) >= cat.TotalRequired

Play(cat) ==
  /\ page = "mode1_select"
  /\ ~ is_complete(cat)
  /\ current_category' = cat
  /\ m1_answers' = <<>>
  /\ offered' = {}
  /\ page' = "mode1_play"
  /\ notice' = ""
  /\ UNCHANGED <<score, user_id, display_name, history_mode1, m2_progress,
                 m1_log, m2_log, fetched, failures>>

(***************************************************************************)
(* mode1_play                                                              *)
(***************************************************************************)
\* The answer-set of a category as the data model defines it: the answers
\* of the category, compared trimmed and in lower case.
NormalizedAnswerSet(cat) ==
  { Lower(Strip(all_answers[i].CorrectAnswer)) :
      i \in { j \in 1..Len(all_answers) :
                Strip(all_answers[j].CategoryID) = Strip(cat.CategoryID) } }

valid_answersRaw(cat) ==
  { Strip(all_answers[i].CorrectAnswer) :
      i \in { j \in 1..Len(all_answers) :
                Strip(all_answers[j].CategoryID) = Strip(cat.CategoryID) } }
valid_answers(cat) ==
  { Lower(Strip(all_answers[i].CorrectAnswer)) :
      i \in { j \in 1..Len(all_answers) :
                Strip(all_answers[j].CategoryID) = Strip(cat.CategoryID) } }

\* "current_found = [x.lower() for x in st.session_state.m1_answers]"
current_foundRaw(answers) == {answers[i] : i \in 1..Len(answers)}
current_found(answers) == {Lower(answers[i]) : i \in 1..Len(answers)}

\* What the form handler does with a submission: "none" when the guard
\* "submitted and user_input" is false.
submit_outcome(cat, user_input, answers) ==
  IF user_input = <<>> THEN "none"
  ELSE LET clean_input == Lower(Strip(user_input))
       IN IF clean_input \in valid_answers(cat)
          THEN IF clean_input \in current_found(answers)
               THEN "duplicate"
               ELSE "accepted"
          ELSE "incorrect"

\* Only the innermost else branch appends to m1_answers.
appendsAlsoDuplicate(outcome) == outcome \in {"accepted", "duplicate"}
appends(outcome) == outcome = "accepted"

SubmitAnswer(user_input) ==
  /\ page = "mode1_play"
  /\ current_category # None
  /\ Len(m1_answers) < current_category.TotalRequired
  /\ LET outcome == submit_outcome(current_category, user_input, m1_answers)
     IN /\ m1_answers' = IF appends(outcome)
                         THEN Append(m1_answers, Title(Strip(user_input)))
                         ELSE m1_answers
        /\ notice' = IF outcome \in {"duplicate", "incorrect"} THEN outcome ELSE ""
  /\ offered' = IF Lower(Strip(user_input)) \in NormalizedAnswerSet(current_category)
                THEN offered \cup {Lower(Strip(user_input))}
                ELSE offered
  /\ UNCHANGED <<page, score, user_id, display_name, history_mode1,
                 current_category, m2_progress, m1_log, m2_log, fetched, failures>>

\* "diff = new_score - previous_best"
diffWhole(new_score, previous_best) == new_score
diff(new_score, previous_best) == new_score - previous_best

\* The "SCORING FIX" block shared by both save buttons.
update_best(new_score, c_id) ==
  LET previous_best == Get(history_mode1, c_id, 0)
  IN IF new_score > previous_best
     THEN /\ score' = score + diff(new_score, previous_best)
          /\ history_mode1' = Put(history_mode1, c_id, new_score)
     ELSE UNCHANGED <<score, history_mode1>>

GiveUp ==
  /\ page = "mode1_play"
  /\ current_category # None
  /\ Len(m1_answers) < current_category.TotalRequired
  /\ Len(m1_log) + Len(m2_log) < MaxRows
  /\ LET new_score == Len(m1_answers)
         c_id      == current_category.CategoryID
     IN /\ update_best(new_score, c_id)
        /\ notice' = IF new_score > Get(history_mode1, c_id, 0)
                     THEN "high_score" ELSE "saved"
        /\ save_mode1_session(current_category.CategoryID, new_score, m1_answers)
  /\ page' = "mode1_select"
  /\ UNCHANGED <<user_id, display_name, m1_answers, current_category,
                 m2_progress, m2_log, offered, fetched, failures>>

Finish ==
  /\ page = "mode1_play"
  /\ current_category # None
  /\ Len(m1_answers) >= current_category.TotalRequired
  /\ Len(m1_log) + Len(m2_log) < MaxRows
  /\ LET new_score == Len(m1_answers)
         c_id      == current_category.CategoryID
     IN /\ update_best(new_score, c_id)
        /\ save_mode1_session(current_category.CategoryID, Len(m1_answers), m1_answers)
  /\ page' = "mode1_select"
  /\ notice' = ""
  /\ UNCHANGED <<user_id, display_name, m1_answers, current_category,
                 m2_progress, m2_log, offered, fetched, failures>>

(***************************************************************************)
(* mode2_play                                                              *)
(***************************************************************************)
visible_countUncapped(attempts) == attempts + 1
visible_count(attempts) == IF attempts + 1 < 3 THEN attempts + 1 ELSE 3

\* "points_map = {0: 3, 1: 2}; points_map.get(state['attempts'], 1)"
points_earnedZero(attempts) == IF attempts = 0 THEN 3 ELSE IF attempts = 1 THEN 2 ELSE 0
points_earned(attempts) == IF attempts = 0 THEN 3 ELSE IF attempts = 1 THEN 2 ELSE 1

\* "st.session_state.m2_progress[c_id]['attempts'] += 1"
bumpSaturating(attempts) == IF attempts + 1 < 2 THEN attempts + 1 ELSE 2
bump(attempts) == attempts + 1

Guess(i, guess) ==
  /\ page = "mode2_play"
  /\ Len(m1_log) + Len(m2_log) < MaxRows
  /\ LET c_id         == characters[i].CharacterID_Old
         correct_name == Strip(characters[i].CharacterName)
         clean_guess  == Lower(Strip(guess))
         clean_answer == Lower(correct_name)
     IN /\ ~ m2_progress[c_id].solved
        /\ IF clean_guess = clean_answer
           THEN LET progress1 == [m2_progress EXCEPT ![c_id].solved = TRUE]
                    \* "state" is the very dict stored in m2_progress
                    state == progress1[c_id]
                IN /\ m2_progress' = progress1
                   /\ score' = score + points_earned(m2_progress[c_id].attempts)
                   /\ save_mode2_guess(c_id, state.attempts, TRUE, guess)
                   /\ notice' = "correct"
           ELSE LET progress1 == [m2_progress EXCEPT
                                    ![c_id].attempts = bump(@)]
                    state == progress1[c_id]
                IN /\ m2_progress' = progress1
                   /\ score' = score
                   /\ save_mode2_guess(c_id, state.attempts, FALSE, guess)
                   /\ notice' = "wrong"
  /\ UNCHANGED <<page, user_id, display_name, history_mode1, m1_answers,
                 current_category, m1_log, offered, fetched, failures>>

(***************************************************************************)
(* main: one user action per step.                                         *)
(***************************************************************************)
Next ==
  \/ \E name_in \in NameInputs, pin_in \in PinInputs : StartGame(name_in, pin_in)
  \/ NavHome
  \/ NavMode1
  \/ NavMode2
  \/ LogOut
  \/ PlayCategoryMode
  \/ PlayCharacterMode
  \/ \E i \in 1..Len(categories) : Play(categories[i])
  \/ \E user_input \in AnswerInputs : SubmitAnswer(user_input)
  \/ GiveUp
  \/ Finish
  \/ \E i \in 1..Len(characters), guess \in GuessInputs : Guess(i, guess)

Spec == Init /\ [][Next]_vars

(***************************************************************************)
(* fetch_user_history as a function of the worksheets: the rows are        *)
(* arbitrary (several users, repeated and malformed rows) and the          *)
(* reconciliation is run for any user at any time.                         *)
(***************************************************************************)
LogUsers == { <<"u", "_", "1", "2">>, <<"v", "_", "1", "2">> }

M1Rows ==
  [CategoryID : CategoryIDs, UserEmail : {<<"u", "_", "1", "2">>},
   Score : {<<"1">>, <<"2">>, <<"x">>}, Answers : {<<>>}]
  \cup
  [CategoryID : {<<"1">>}, UserEmail : {<<"v", "_", "1", "2">>},
   Score : {<<"2">>}, Answers : {<<>>}]

M2Rows ==
  [CharacterID : CharacterIDs, UserEmail : {<<"u", "_", "1", "2">>},
   CurrentAttempts : {<<"0">>, <<"1">>, <<"3">>, <<"x">>},
   IsSolved : {"TRUE"}, Guess : {<<>>}]
  \cup
  [CharacterID : {<<"7">>}, UserEmail : {<<"u", "_", "1", "2">>},
   CurrentAttempts : {<<"1">>}, IsSolved : {"FALSE"}, Guess : {<<>>}]
  \cup
  [CharacterID : {<<"7">>}, UserEmail : {<<"v", "_", "1", "2">>},
   CurrentAttempts : {<<"0">>}, IsSolved : {"TRUE"}, Guess : {<<>>}]

Reconcile(uid) ==
  /\ fetch_user_history(uid)
  /\ fetched' = [uid |-> uid,
                 runs |-> IF fetched.uid = uid /\ fetched.runs >= 1 THEN 2 ELSE 1]
  /\ UNCHANGED <<page, user_id, display_name, m1_answers, current_category,
                 m1_log, m2_log, notice, offered, failures>>

AppendM1(row) ==
  /\ Len(m1_log) + Len(m2_log) < MaxRows
  /\ m1_log' = Append(m1_log, row)
  /\ fetched' = [uid |-> <<>>, runs |-> 0]
  /\ UNCHANGED <<session, m2_log, notice, offered, failures>>

AppendM2(row) ==
  /\ Len(m1_log) + Len(m2_log) < MaxRows
  /\ m2_log' = Append(m2_log, row)
  /\ fetched' = [uid |-> <<>>, runs |-> 0]
  /\ UNCHANGED <<session, m1_log, notice, offered, failures>>

NextLog ==
  \/ \E uid \in LogUsers : Reconcile(uid)
  \/ \E row \in M1Rows : AppendM1(row)
  \/ \E row \in M2Rows : AppendM2(row)

SpecLog == Init /\ [][NextLog]_vars

(***************************************************************************)
(* The same handlers when append_row raises (the store is unreachable):    *)
(* the exception leaves the handler at the save call, so what was assigned *)
(* to st.session_state before it stays and nothing after it runs.          *)
(***************************************************************************)
GuessFail(i, guess) ==
  /\ page = "mode2_play"
  /\ LET c_id         == characters[i].CharacterID_Old
         correct_name == Strip(characters[i].CharacterName)
         clean_guess  == Lower(Strip(guess))
         clean_answer == Lower(correct_name)
     IN /\ ~ m2_progress[c_id].solved
        /\ IF clean_guess = clean_answer
           THEN /\ m2_progress' = [m2_progress EXCEPT ![c_id].solved = TRUE]
                /\ score' = score + points_earned(m2_progress[c_id].attempts)
           ELSE /\ m2_progress' = [m2_progress EXCEPT ![c_id].attempts = bump(@)]
                /\ score' = score
  /\ failures < MaxFailures
  /\ failures' = failures + 1
  /\ notice' = "exception"
  /\ UNCHANGED <<page, user_id, display_name, history_mode1, m1_answers,
                 current_category, m1_log, m2_log, offered, fetched>>

GiveUpFail ==
  /\ page = "mode1_play"
  /\ current_category # None
  /\ Len(m1_answers) < current_category.TotalRequired
  /\ update_best(Len(m1_answers), current_category.CategoryID)
  /\ failures < MaxFailures
  /\ failures' = failures + 1
  /\ notice' = "exception"
  /\ UNCHANGED <<page, user_id, display_name, m1_answers, current_category,
                 m2_progress, m1_log, m2_log, offered, fetched>>

FinishFail ==
  /\ page = "mode1_play"
  /\ current_category # None
  /\ Len(m1_answers) >= current_category.TotalRequired
  /\ update_best(Len(m1_answers), current_category.CategoryID)
  /\ failures < MaxFailures
  /\ failures' = failures + 1
  /\ notice' = "exception"
  /\ UNCHANGED <<page, user_id, display_name, m1_answers, current_category,
                 m2_progress, m1_log, m2_log, offered, fetched>>

NextStore ==
  \/ Next
  \/ \E i \in 1..Len(characters), guess \in GuessInputs : GuessFail(i, guess)
  \/ GiveUpFail
  \/ FinishFail

SpecStore == Init /\ [][NextStore]_vars

(***************************************************************************)
(* Properties                                                              *)
(***************************************************************************)
TheUser == <<"u", "_", "1", "2">>

LoggedIn == user_id # <<>>

SolvedSet(progress) == {c \in DOMAIN progress : progress[c].solved}

\* Indices of the solved rows of user uid for character c.
SolvedRows(log, uid, c) ==
  { i \in 1..Len(log) : /\ log[i].UserEmail = uid
                        /\ log[i].IsSolved = "TRUE"
                        /\ log[i].CharacterID = c }

FirstSolvedRow(log, uid, c) ==
  CHOOSE i \in SolvedRows(log, uid, c) : \A j \in SolvedRows(log, uid, c) : i <= j

SolvedInLog(log, uid) ==
  { log[i].CharacterID : i \in { j \in 1..Len(log) : /\ log[j].UserEmail = uid
                                                      /\ log[j].IsSolved = "TRUE" } }

\* The attempts -> points mapping of the data model.
TierMapping(n) == CASE n = 0 -> 3 [] n = 1 -> 2 [] OTHER -> 1

\* Points of each solved character, priced by its first solved row.
SolveOncePoints(log, uid) ==
  SumValues([c \in SolvedInLog(log, uid) |->
               TierMapping(IntOr(log[FirstSolvedRow(log, uid, c)].CurrentAttempts, 2))])

\* C1 (solve-once): whatever rows Mode2_Sessions holds, the Mode 2 part of the
\* score fetch_user_history computes for a user is the sum, over the distinct
\* characters with a solved row of that user, of the tier of the FIRST such
\* row; later solved rows of the same character add nothing.
C1_SolveOnce ==
  fetched.runs >= 1 =>
    score - SumValues(history_mode1) = SolveOncePoints(m2_log, fetched.uid)

\* Solved with attempts 1, then a duplicate solved row with attempts 0: 2 points.
C1_Witness ==
  /\ fetched = [uid |-> TheUser, runs |-> 1]
  /\ m1_log = <<>>
  /\ Len(m2_log) = 2
  /\ m2_log[1].CharacterID = <<"7">> /\ m2_log[2].CharacterID = <<"7">>
  /\ m2_log[1].UserEmail = TheUser /\ m2_log[2].UserEmail = TheUser
  /\ m2_log[1].IsSolved = "TRUE" /\ m2_log[2].IsSolved = "TRUE"
  /\ m2_log[1].CurrentAttempts = <<"1">>
  /\ m2_log[2].CurrentAttempts = <<"0">>
  /\ score = 2

\* C2 (live score agrees with the log): while a user is logged in, the score
\* in the session equals the total fetch_user_history would compute from the
\* two worksheets at that moment, after every play action and every login.
C2_LiveScoreAgrees ==
  LoggedIn => score = total_calculated_score(m1_log, m2_log, user_id)

\* A fresh login (m2_progress holds only what the log seeded) that shows the
\* points of a solved character and of a saved category.
C2_Witness ==
  /\ LoggedIn
  /\ page = "menu"
  /\ DOMAIN m2_progress = {<<"7">>}
  /\ Len(m1_log) >= 2
  /\ score = 5

\* C3 (idempotence): running fetch_user_history again for the same user on
\* unchanged worksheets changes neither score, nor history_mode1, nor the set
\* of characters marked solved.
C3_Idempotent ==
  [][ (fetched.runs >= 1 /\ fetched'.runs = 2 /\ fetched'.uid = fetched.uid)
        => /\ score' = score
           /\ history_mode1' = history_mode1
           /\ SolvedSet(m2_progress') = SolvedSet(m2_progress) ]_vars

C3_Witness ==
  /\ fetched = [uid |-> TheUser, runs |-> 2]
  /\ score = 5
  /\ DOMAIN history_mode1 = {<<"1">>}
  /\ SolvedSet(m2_progress) = {<<"7">>}

\* Scores of the rows of user uid for category c.
ScoresOf(log, uid, c) ==
  { IntOr(log[i].Score, 0) :
      i \in { j \in 1..Len(log) : log[j].UserEmail = uid /\ log[j].CategoryID = c } }

MaxOf(S) == CHOOSE m \in S : \A x \in S : x <= m

\* The best score of the data model (0 when the user has no row).
BestScore(log, uid, c) == MaxOf(ScoresOf(log, uid, c) \cup {0})

\* C4 (monotone best score): the best score of a (user, category) is the
\* maximum Score over the user's Mode1 rows of the category; the value
\* fetch_user_history reconciles and the in-memory history_mode1 both equal it
\* while the user is logged in, and neither it nor the in-memory value of a
\* session ever decreases as rows are appended.
C4_BestScoreMonotone ==
  /\ [](LoggedIn =>
          \A c \in CategoryIDs :
            /\ Get(history_mode1, c, 0) = BestScore(m1_log, user_id, c)
            /\ Get(history_map_of(m1_log, user_id), c, 0) = BestScore(m1_log, user_id, c))
  /\ [][ \A c \in CategoryIDs :
           /\ BestScore(m1_log', TheUser, c) >= BestScore(m1_log, TheUser, c)
           /\ (LoggedIn /\ user_id' = user_id)
                => Get(history_mode1', c, 0) >= Get(history_mode1, c, 0) ]_vars

\* A lower score saved after a higher one, then a new login.
C4_Witness ==
  /\ LoggedIn
  /\ page = "menu"
  /\ Len(m1_log) = 2
  /\ m1_log[1].CategoryID = <<"1">> /\ m1_log[1].Score = <<"1">>
  /\ m1_log[2].CategoryID = <<"1">> /\ m1_log[2].Score = <<"0">>
  /\ history_mode1[<<"1">>] = 1

NormalizedList(answers) == [i \in 1..Len(answers) |-> Lower(Strip(answers[i]))]

\* C5 (dedup): m1_answers never holds two entries that are equal after
\* trim + lowercase, and its length is the number of distinct normalized
\* valid answers submitted since the list was emptied.
C5_Dedup ==
  /\ \A i, j \in 1..Len(m1_answers) :
       NormalizedList(m1_answers)[i] = NormalizedList(m1_answers)[j] => i = j
  /\ Len(m1_answers) = Cardinality(offered)

\* "ab" accepted, then the same answer in another case rejected as a duplicate.
C5_Witness ==
  /\ page = "mode1_play"
  /\ notice = "duplicate"
  /\ m1_answers = << <<"A", "b">> >>
  /\ offered = { <<"a", "b">> }

\* The row a step appended to Mode2_Sessions (meaningful when one was).
AppendsM2 == Len(m2_log') = Len(m2_log) + 1

NewM2Row == m2_log'[Len(m2_log')]

\* C6 (attempts recorded before the increment): every guess row, right or
\* wrong, carries the attempts value the character had before the guess was
\* processed.
C6_RecordedBeforeIncrement ==
  [][ AppendsM2 =>
        NewM2Row.CurrentAttempts = IntCell(m2_progress[NewM2Row.CharacterID].attempts) ]_vars

\* C7 as stated (attempts saturate at 2): attempts stays in {0,1,2} and no
\* recorded CurrentAttempts exceeds 2.
C7_SaturatesAtTwo ==
  /\ \A c \in DOMAIN m2_progress : m2_progress[c].attempts \in {0, 1, 2}
  /\ \A i \in 1..Len(m2_log) : IntOr(m2_log[i].CurrentAttempts, 0) <= 2

\* C7 as the code has it: attempts is a natural number, a wrong guess moves
\* UNSOLVED(a) to UNSOLVED(a + 1) with no upper limit and touches no other
\* character, and a correct guess leaves attempts alone.
C7_AttemptsCount ==
  /\ [](\A c \in DOMAIN m2_progress : m2_progress[c].attempts \in Nat)
  /\ [][ AppendsM2 =>
           \A c \in DOMAIN m2_progress :
             m2_progress'[c].attempts =
               IF c = NewM2Row.CharacterID /\ NewM2Row.IsSolved = "FALSE"
               THEN m2_progress[c].attempts + 1
               ELSE m2_progress[c].attempts ]_vars

\* Three wrong guesses on one character.
C7_Witness ==
  /\ page = "mode2_play"
  /\ <<"7">> \in DOMAIN m2_progress
  /\ m2_progress[<<"7">>].attempts = 3
  /\ ~ m2_progress[<<"7">>].solved

RowsAbout(log, uid, c) ==
  SelectSeq(log, LAMBDA r : r.UserEmail = uid /\ r.CharacterID = c)

\* C8 (SOLVED is terminal): while a user is logged in the characters marked
\* solved are exactly those with a solved row of that user, in the session
\* of the solve and in every later one; the flag is never reset during a
\* session; no guess can be submitted on a solved character; and once a
\* solved row exists no step adds a row for that user and character.
C8_SolvedTerminal ==
  /\ [](LoggedIn => SolvedSet(m2_progress) = SolvedInLog(m2_log, user_id))
  /\ [](\A i \in 1..Len(characters), guess \in GuessInputs :
          (/\ characters[i].CharacterID_Old \in DOMAIN m2_progress
           /\ m2_progress[characters[i].CharacterID_Old].solved)
            => ~ ENABLED Guess(i, guess))
  /\ [][ /\ (LoggedIn /\ user_id' = user_id)
            => SolvedSet(m2_progress) \subseteq SolvedSet(m2_progress')
         /\ \A c \in SolvedInLog(m2_log, TheUser) :
              RowsAbout(m2_log', TheUser, c) = RowsAbout(m2_log, TheUser, c) ]_vars

\* A later session: the character was solved after one wrong guess, yet the
\* session holds it with attempts 0, as seeded from the log at login.
C8_Witness ==
  /\ page = "mode2_play"
  /\ m2_progress[<<"7">>] = [attempts |-> 0, solved |-> TRUE]
  /\ \E i \in 1..Len(m2_log) :
       /\ m2_log[i].CharacterID = <<"7">>
       /\ m2_log[i].IsSolved = "TRUE"
       /\ m2_log[i].CurrentAttempts = <<"1">>

\* C9 (tier mapping exact and shared): both pricings follow 0 -> 3, 1 -> 2,
\* otherwise 1, and the points a correct guess adds to the live score are the
\* points fetch_user_history assigns to the row that guess appended.
C9_TierShared ==
  /\ [](\A c \in DOMAIN m2_progress :
          /\ tier(m2_progress[c].attempts) = TierMapping(m2_progress[c].attempts)
          /\ points_earned(m2_progress[c].attempts) = TierMapping(m2_progress[c].attempts))
  /\ [][ (AppendsM2 /\ NewM2Row.IsSolved = "TRUE") =>
           /\ score' - score = TierMapping(m2_progress[NewM2Row.CharacterID].attempts)
           /\ score' - score = tier(IntOr(NewM2Row.CurrentAttempts, 2))
           /\ score' - score = m2_result(m2_log', user_id).m2_points
                                 - m2_result(m2_log, user_id).m2_points ]_vars

\* A character solved after two wrong guesses: 1 point.
C9_Witness ==
  /\ Len(m2_log) = 3
  /\ m2_log[3].IsSolved = "TRUE"
  /\ m2_log[3].CurrentAttempts = <<"2">>
  /\ score = 1

\* The outcome of a submission as the contract states it.
ContractOutcome(cat, proposed, accepted) ==
  LET norm == Lower(Strip(proposed))
  IN IF norm \in {Lower(Strip(accepted[i])) : i \in 1..Len(accepted)}
     THEN "duplicate"
     ELSE IF norm \notin NormalizedAnswerSet(cat) THEN "incorrect" ELSE "accepted"

FormShown ==
  /\ page = "mode1_play"
  /\ current_category # None
  /\ Len(m1_answers) < current_category.TotalRequired

\* C10 as stated (answer submission outcome): for EVERY proposed answer the
\* handler's outcome is Duplicate / Incorrect / Accepted as the contract
\* classifies it.
C10_OutcomeEveryInput ==
  FormShown =>
    \A proposed \in AnswerInputs :
      submit_outcome(current_category, proposed, m1_answers)
        = ContractOutcome(current_category, proposed, m1_answers)

\* C10 as the code has it: an empty input has no outcome; every non-empty
\* input is classified as the contract says (whichever check runs first),
\* and an accepted input is appended trimmed and title-cased.
C10_OutcomeNonEmpty ==
  /\ [](FormShown =>
          \A proposed \in AnswerInputs :
            submit_outcome(current_category, proposed, m1_answers)
              = IF proposed = <<>> THEN "none"
                ELSE ContractOutcome(current_category, proposed, m1_answers))
  /\ [][ (FormShown /\ m1_answers' # m1_answers /\ page' = page) =>
           \E proposed \in AnswerInputs \ {<<>>} :
             /\ ContractOutcome(current_category, proposed, m1_answers) = "accepted"
             /\ m1_answers' = Append(m1_answers, Title(Strip(proposed))) ]_vars

\* "bA " was accepted as "Ba"; a later input was rejected as incorrect.
C10_Witness ==
  /\ FormShown
  /\ m1_answers = << <<"B", "a">> >>
  /\ notice = "incorrect"

OwnRows(log, uid) == SelectSeq(log, LAMBDA r : r.UserEmail = uid)

\* What fetch_user_history computes for a user from the two worksheets.
Reconciled(m1_data, m2_data, uid) ==
  [total  |-> total_calculated_score(m1_data, m2_data, uid),
   best   |-> history_map_of(m1_data, uid),
   solved |-> m2_result(m2_data, uid).solved_chars]

AppendsM1 == Len(m1_log') = Len(m1_log) + 1

NewM1Row == m1_log'[Len(m1_log')]

\* C11 (cross-user isolation): what fetch_user_history computes for a user
\* (total, best scores, solved set) is a function of the rows carrying that
\* user's id only, and a row appended for another user, at any point of the
\* interleaving, never changes it.
C11_Isolation ==
  /\ [](\A uid \in LogUsers :
          Reconciled(m1_log, m2_log, uid)
            = Reconciled(OwnRows(m1_log, uid), OwnRows(m2_log, uid), uid))
  /\ [](fetched.runs >= 1 =>
          /\ score = Reconciled(OwnRows(m1_log, fetched.uid),
                                OwnRows(m2_log, fetched.uid), fetched.uid).total
          /\ history_mode1 = history_map_of(OwnRows(m1_log, fetched.uid), fetched.uid))
  /\ [][ \A uid \in LogUsers :
           (\/ AppendsM1 /\ NewM1Row.UserEmail # uid
            \/ AppendsM2 /\ NewM2Row.UserEmail # uid)
             => Reconciled(m1_log', m2_log', uid) = Reconciled(m1_log, m2_log, uid) ]_vars

\* Another user's solved row precedes this user's: only the own row is priced.
C11_Witness ==
  /\ fetched = [uid |-> TheUser, runs |-> 1]
  /\ Len(m2_log) = 2 /\ Len(m1_log) = 1
  /\ m2_log[1].UserEmail # TheUser /\ m2_log[1].IsSolved = "TRUE"
  /\ m2_log[2].UserEmail = TheUser /\ m2_log[2].IsSolved = "TRUE"
  /\ m2_log[2].CurrentAttempts = <<"1">>
  /\ m1_log[1].UserEmail # TheUser
  /\ score = 2

RowsOf(log) == {log[i] : i \in 1..Len(log)}

\* C12 (retried appends are harmless): appending a second copy of a row the
\* worksheet already holds (Mode1 row, wrong guess row or solved guess row),
\* at any later position, leaves every user's reconciled total unchanged.
C12_RetryHarmless ==
  [][ (\/ AppendsM1 /\ NewM1Row \in RowsOf(m1_log)
       \/ AppendsM2 /\ NewM2Row \in RowsOf(m2_log))
        => \A uid \in LogUsers :
             total_calculated_score(m1_log', m2_log', uid)
               = total_calculated_score(m1_log, m2_log, uid) ]_vars

\* A solved row, another character's row, then the first row once more.
C12_Witness ==
  /\ fetched = [uid |-> TheUser, runs |-> 1]
  /\ Len(m2_log) = 3
  /\ m2_log[1] = m2_log[3]
  /\ m2_log[2] # m2_log[1]
  /\ m2_log[1].UserEmail = TheUser /\ m2_log[1].IsSolved = "TRUE"
  /\ m2_log[1].CurrentAttempts = <<"0">>
  /\ m2_log[2].UserEmail = TheUser /\ m2_log[2].IsSolved = "FALSE"
  /\ score = 3

RowsFor(log, uid, c) ==
  { i \in 1..Len(log) : log[i].UserEmail = uid /\ log[i].CategoryID = c }

\* Scores of the well-formed rows; a malformed Score counts as 0.
CoercedScores(log, uid, c) ==
  { DigitsVal(Strip(log[i].Score)) : i \in {j \in RowsFor(log, uid, c) : IsIntCell(log[j].Score)} }
  \cup (IF \E i \in RowsFor(log, uid, c) : ~ IsIntCell(log[i].Score) THEN {0} ELSE {})

\* Price of a solved row; an unparseable CurrentAttempts is the lowest tier.
CoercedPrice(cell) == IF IsIntCell(cell) THEN TierMapping(DigitsVal(Strip(cell))) ELSE 1

\* C14 (malformed numeric history is coerced): an unparseable Score counts as
\* 0 for its category and never lowers or removes a valid best score, a solved
\* row with an unparseable CurrentAttempts is worth 1 point, and all the
\* well-formed rows of the user are still counted.
C14_MalformedCoerced ==
  fetched.runs >= 1 =>
    /\ \A c \in CategoryIDs :
         /\ c \in DOMAIN history_mode1 <=> RowsFor(m1_log, fetched.uid, c) # {}
         /\ c \in DOMAIN history_mode1
              => history_mode1[c] = MaxOf(CoercedScores(m1_log, fetched.uid, c))
    /\ score - SumValues(history_mode1)
         = SumValues([c \in SolvedInLog(m2_log, fetched.uid) |->
             CoercedPrice(m2_log[FirstSolvedRow(m2_log, fetched.uid, c)].CurrentAttempts)])

\* Score "x" next to Score "2" for one category, and a solved row whose
\* CurrentAttempts is "x": 2 + 1 points.
C14_Witness ==
  /\ fetched = [uid |-> TheUser, runs |-> 1]
  /\ Len(m1_log) = 2 /\ Len(m2_log) = 1
  /\ m1_log[1].UserEmail = TheUser /\ m1_log[2].UserEmail = TheUser
  /\ m1_log[1].CategoryID = <<"1">> /\ m1_log[2].CategoryID = <<"1">>
  /\ m1_log[1].Score = <<"2">> /\ m1_log[2].Score = <<"x">>
  /\ m2_log[1].UserEmail = TheUser /\ m2_log[1].IsSolved = "TRUE"
  /\ m2_log[1].CurrentAttempts = <<"x">>
  /\ history_mode1[<<"1">>] = 2
  /\ score = 3

\* C13 (checkpoints are atomic and retryable when the store fails): a
\* character is never marked solved in the session while the worksheet holds
\* no solved row of the user for it, and when an append succeeds right after
\* a failed one the session score equals the total reconciled from the sheets.
C13_RetryableCheckpoints ==
  /\ [](LoggedIn => SolvedSet(m2_progress) \subseteq SolvedInLog(m2_log, user_id))
  /\ [][ (notice = "exception" /\ (AppendsM1 \/ AppendsM2))
           => score' = total_calculated_score(m1_log', m2_log', user_id') ]_vars

\* C15 (rejected submissions change nothing): a submission answered with
\* the Duplicate warning or the Incorrect error leaves m1_answers, score,
\* history_mode1, m2_progress, the page, the user, the current category and
\* both worksheets as they were.
C15_RejectedNoChange ==
  [][ notice' \in {"duplicate", "incorrect"}
        => UNCHANGED <<page, score, user_id, display_name, history_mode1,
                       m1_answers, current_category, m2_progress, m1_log, m2_log>> ]_vars

\* An incorrect submission made with one accepted answer and 3 points held.
C15_Witness ==
  /\ FormShown
  /\ notice = "incorrect"
  /\ m1_answers = << <<"A", "b">> >>
  /\ score = 3
  /\ Len(m2_log) = 1

IsPrefix(old, new) ==
  /\ Len(old) <= Len(new)
  /\ \A i \in 1..Len(old) : new[i] = old[i]

\* A step in which a Mode 2 guess was submitted (it ends with the
\* "Correct!" toast or the "Wrong" error).
GuessSubmitted == notice' \in {"correct", "wrong"}

\* A step in which "Give Up & Save Score" or "Finish & Save" was pressed on
\* the play page (the sidebar's way from mode1_play to mode1_select empties
\* m1_answers and shows no message).
CheckpointSaved ==
  /\ page = "mode1_play"
  /\ page' = "mode1_select"
  /\ \/ notice' \in {"high_score", "saved"}
     \/ m1_answers' = m1_answers /\ m1_answers # <<>>

\* C16 (append-only log, one record per checkpoint): after every step each
\* worksheet has its former content as a prefix; a submitted Mode 2 guess
\* appends exactly one Mode2 record and no Mode1 record, a give-up or
\* finish-and-save appends exactly one Mode1 record and no Mode2 record, and
\* no other step (login, logout, navigation, answer submission) changes
\* either worksheet.
C16_AppendOnly ==
  [][ /\ IsPrefix(m1_log, m1_log')
      /\ IsPrefix(m2_log, m2_log')
      /\ GuessSubmitted => (AppendsM2 /\ m1_log' = m1_log)
      /\ CheckpointSaved => (AppendsM1 /\ m2_log' = m2_log)
      /\ m2_log' # m2_log => GuessSubmitted
      /\ m1_log' # m1_log => CheckpointSaved ]_vars

\* Logged out again with one Mode1 record and two Mode2 records written.
C16_Witness ==
  /\ page = "home"
  /\ user_id = <<>>
  /\ notice = ""
  /\ Len(m1_log) = 1
  /\ Len(m2_log) = 2

RequiredFor(c) ==
  LET i == CHOOSE j \in 1..Len(categories) : categories[j].CategoryID = c
  IN categories[i].TotalRequired

\* C17 (completion gates play): on the category list the Play button of a
\* category can be pressed exactly when history_mode1.get(c, 0) is below its
\* TotalRequired; that number is the user's best recorded score; the play
\* page is never open on a complete category; and a Mode1 record is appended
\* only for a user and category whose best recorded score was still below
\* TotalRequired, whatever logouts and logins came before.
C17_CompletionGatesPlay ==
  /\ [](page = "mode1_select" =>
          \A i \in 1..Len(categories) :
             ENABLED Play(categories[i])
               <=> Get(history_mode1, categories[i].CategoryID, 0)
                      < categories[i].TotalRequired)
  /\ [](LoggedIn =>
          \A c \in CategoryIDs :
             Get(history_mode1, c, 0) = BestScore(m1_log, user_id, c))
  /\ [](page = "mode1_play" =>
          Get(history_mode1, current_category.CategoryID, 0)
             < current_category.TotalRequired)
  /\ [][ AppendsM1 =>
           BestScore(m1_log, NewM1Row.UserEmail, NewM1Row.CategoryID)
              < RequiredFor(NewM1Row.CategoryID) ]_vars

\* Back on the category list after a logout and a login, category 2
\* complete from the log and category 1 given up once.
C17_Witness ==
  /\ page = "mode1_select"
  /\ current_category = None
  /\ Get(history_mode1, <<"2">>, 0) = 1
  /\ BestScore(m1_log, user_id, <<"2">>) = 1
  /\ Len(m1_log) = 2

CategoryWithID(c) ==
  categories[CHOOSE j \in 1..Len(categories) : categories[j].CategoryID = c]

WellShaped(r) ==
  /\ r.CategoryID \in CategoryIDs
  /\ r.Score = IntCell(Len(r.Answers))
  /\ IsIntCell(r.Score)
  /\ 0 <= IntOr(r.Score, 0)
  /\ IntOr(r.Score, 0) <= RequiredFor(r.CategoryID)
  /\ \A i, j \in 1..Len(r.Answers) :
       NormalizedList(r.Answers)[i] = NormalizedList(r.Answers)[j] => i = j
  /\ \A i \in 1..Len(r.Answers) :
       NormalizedList(r.Answers)[i] \in NormalizedAnswerSet(CategoryWithID(r.CategoryID))

\* C18 (shape of the Mode1 records the app writes): in every record the
\* Score cell is the number of answers stored in the record, it lies between
\* 0 and the category's TotalRequired, the answers are pairwise distinct
\* after trim + lowercase and each is in the category's answer-set; the
\* record written by "Finish & Save" has Score = TotalRequired and the one
\* written by "Give Up & Save Score" has Score < TotalRequired.
C18_Mode1RecordShape ==
  /\ [](\A i \in 1..Len(m1_log) : WellShaped(m1_log[i]))
  /\ [][ AppendsM1 =>
           /\ NewM1Row.UserEmail = user_id
           /\ NewM1Row.Answers = m1_answers
           /\ notice' \in {"high_score", "saved"}
                => IntOr(NewM1Row.Score, 0) < RequiredFor(NewM1Row.CategoryID)
           /\ notice' = ""
                => IntOr(NewM1Row.Score, 0) = RequiredFor(NewM1Row.CategoryID) ]_vars

\* Category 1 given up with one answer, then finished with both.
C18_Witness ==
  /\ page = "mode1_select"
  /\ Len(m1_log) = 2
  /\ m1_log[1].CategoryID = <<"1">> /\ m1_log[1].Score = <<"1">>
  /\ Len(m1_log[1].Answers) = 1
  /\ m1_log[2].CategoryID = <<"1">> /\ m1_log[2].Score = <<"2">>
  /\ Len(m1_log[2].Answers) = 2
  /\ score = 2

(***************************************************************************)
(* The clue-reveal machine of the data model: UNSOLVED(0..2) / SOLVED.     *)
(***************************************************************************)
Min(a, b) == IF a < b THEN a ELSE b

\* What a character's entry is when m2_progress has none yet (the page's
\* "Init State" loop creates exactly this entry).
ProgressOf(progress, c) ==
  IF c \in DOMAIN progress THEN progress[c] ELSE [attempts |-> 0, solved |-> FALSE]

\* The machine state an entry of m2_progress stands for.
Machine(p) == [wrong |-> Min(p.attempts, 2), solved |-> p.solved]

MachineWrong(m) == [wrong |-> Min(m.wrong + 1, 2), solved |-> FALSE]

MachineCorrect(m) == [wrong |-> m.wrong, solved |-> TRUE]

MachineClues(m) == m.wrong + 1

\* C19 (the attempt counter refines the clue-reveal machine): for every
\* character the clues shown are min(attempts + 1, 3), a number in {1,2,3},
\* and equal the clues of the saturating machine; within a session attempts
\* is 0 before the first guess and grows by one per wrong guess, a wrong
\* guess is the machine's wrong-guess move, a correct guess is the machine's
\* solve move and adds tier(attempts) = tier(saturated count) points, and no
\* other step of the session moves the machine.
C19_RefinesClueMachine ==
  /\ [](\A c \in CharacterIDs :
          LET p == ProgressOf(m2_progress, c)
          IN /\ visible_count(p.attempts) = Min(p.attempts + 1, 3)
             /\ visible_count(p.attempts) \in {1, 2, 3}
             /\ visible_count(p.attempts) = MachineClues(Machine(p))
             /\ points_earned(p.attempts) = TierMapping(Machine(p).wrong))
  /\ [][ \A c \in CharacterIDs :
           LET before == ProgressOf(m2_progress, c)
               after  == ProgressOf(m2_progress', c)
           IN IF user_id' # user_id
              THEN after.attempts = 0
              ELSE IF GuessSubmitted /\ NewM2Row.CharacterID = c
              THEN IF notice' = "wrong"
                   THEN /\ ~ before.solved
                        /\ after.attempts = before.attempts + 1
                        /\ Machine(after) = MachineWrong(Machine(before))
                        /\ score' = score
                   ELSE /\ ~ before.solved
                        /\ after.attempts = before.attempts
                        /\ Machine(after) = MachineCorrect(Machine(before))
                        /\ score' - score = TierMapping(before.attempts)
                        /\ score' - score = TierMapping(Machine(before).wrong)
              ELSE after = before ]_vars

\* Character 8 solved after two wrong guesses, all three clues shown.
C19_Witness ==
  /\ page = "mode2_play"
  /\ notice = "correct"
  /\ m2_progress[<<"8">>] = [attempts |-> 2, solved |-> TRUE]
  /\ visible_count(m2_progress[<<"8">>].attempts) = 3
  /\ score = 1

\* C20 (login guard): the page is "home" exactly when user_id is empty;
\* user_id is set only by Start Game on the home page, from a name that is
\* non-empty after trimming and a PIN of at least 2 characters after
\* trimming, as name_pin; a Start Game that does not log in shows the error
\* and leaves the session and the worksheets unchanged; and Log Out gives
\* the initial session (page "home", score 0, no history, no progress, no
\* answers, no category) with both worksheets untouched.
C20_LoginGuard ==
  /\ [](page = "home" <=> user_id = <<>>)
  /\ [][ (user_id' # user_id /\ user_id' # <<>>) =>
           /\ page = "home"
           /\ user_id = <<>>
           /\ page' = "menu"
           /\ \E n \in NameInputs, p \in PinInputs :
                /\ Strip(n) # <<>>
                /\ Len(Strip(p)) >= 2
                /\ user_id' = Strip(n) \o <<"_">> \o Strip(p)
                /\ display_name' = Strip(n)
           /\ UNCHANGED <<m1_log, m2_log>> ]_vars
  /\ [][ (page = "home" /\ user_id' = <<>>) =>
           /\ notice' = "login_error"
           /\ UNCHANGED <<page, score, user_id, display_name, history_mode1,
                          m1_answers, current_category, m2_progress,
                          m1_log, m2_log>> ]_vars
  /\ [][ notice' = "login_error" => (page = "home" /\ user_id' = <<>>) ]_vars
  /\ [][ (user_id # <<>> /\ user_id' = <<>>) =>
           /\ page' = "home"
           /\ score' = 0
           /\ display_name' = <<>>
           /\ history_mode1' = EmptyDict
           /\ m1_answers' = <<>>
           /\ current_category' = None
           /\ m2_progress' = EmptyDict
           /\ UNCHANGED <<m1_log, m2_log>> ]_vars

\* A rejected Start Game on the home page after a session that wrote rows.
C20_Witness ==
  /\ page = "home"
  /\ user_id = <<>>
  /\ notice = "login_error"
  /\ score = 0
  /\ Len(m2_log) > 0

====
